---------------------------- MODULE Spec2Model ----------------------------
(***************************************************************************)
(* unitig-flipper: orientation of unitigs on the bidirected de Bruijn      *)
(* graph of their (k-1)-mer borders.                                       *)
(*                                                                         *)
(*   dbg.rs   DBG::build, DBG::add_edge, DBG::twin  (doubled 2n-node graph)*)
(*   lib.rs   bfs, direction_switching_bfs, the two pick_orientations_*,   *)
(*            evaluate, optimize_unitig_orientation                        *)
(*   main.rs  is_terminal, bfs_from, pick_orientations, evaluate, run,     *)
(*            over the edge-tagged graph dbg.edges                         *)
(*                                                                         *)
(* Vectors keep the source's 0-based indices: a Vec of length n is a       *)
(* function on 0..n-1.  A DNA sequence is a TLA+ sequence of letters.      *)
(***************************************************************************)
EXTENDS Integers, Sequences, FiniteSets, TLC

VARIABLES
    prog,           \* "lib" (lib.rs over dbg.rs) or "main" (main.rs)
    alg,            \* which pick_orientations_* the lib caller runs
    unitigs,        \* db      : the input sequences
    unitigs_rc,     \* rc_db   : their reverse complements
    k,              \* k
    pc,             \* position of the program
    i,              \* loop index of the two loops of build
    borders,        \* DBG::build's HashMap from (k-1)-mer to Vec<MapValue>
    dbg,            \* lib: DBG {out_edges, in_edges, n_unitigs}
    edges,          \* main: dbg.edges, one Vec<Edge> per unitig
    phase,          \* main: 1 = the loop over terminal roots, 2 = the clean-up loop
    bfs_dir,        \* lib: the direction of the running bfs
    root,           \* loop index of the pick_orientations loops
    queue,          \* the VecDeque of the running BFS
    visited,        \* visited
    orientations,   \* orientations
    n_components,   \* main: n_components
    score,          \* result of evaluate, -1 before it ran
    error,          \* how the run failed, if it did
    pushed_by,      \* history: for each queue entry, the id whose expansion pushed it (-1: a root)
    tree            \* history: for each id, the entry that committed it last

vars == <<prog, alg, unitigs, unitigs_rc, k, pc, i, borders, dbg, edges, phase,
          bfs_dir, root, queue, visited, orientations, n_components, score, error,
          pushed_by, tree>>

----------------------------------------------------------------------------
(* Bounds of the model                                                     *)

\* total number of letters in the input
MaxLetters == 4
\* largest k tried
MaxK == 3
\* total number of letters in the inputs of the runs checked for termination
MaxLettersLive == 3

----------------------------------------------------------------------------
(* Sequences                                                               *)

Alphabet == {"A", "C", "G", "T"}

Forward == "Forward"
Reverse == "Reverse"
Backward == "Backward"
Orientation == {Forward, Reverse}

Start == "Start"
End == "End"

\* Orientation::flip, used by main.rs; its definition is not in dbg.rs
flip(o) == IF o = Forward THEN Reverse ELSE Forward

\* Direction::flip
dir_flip(d) == IF d = Forward THEN Backward ELSE Forward

complement(c) ==
    CASE c = "A" -> "T"
      [] c = "C" -> "G"
      [] c = "G" -> "C"
      [] c = "T" -> "A"

\* jseqio::reverse_complement
reverse_complement(s) == [j \in 1..Len(s) |-> complement(s[Len(s) + 1 - j])]

\* the Vec's length
VecLen(v) == Cardinality(DOMAIN v)

\* &seq[..m]
SlicePrefix(s, m) == SubSeq(s, 1, m)
\* &seq[len-m..]
SliceSuffix(s, m) == SubSeq(s, Len(s) - m + 1, Len(s))
\* both slices of DBG::build are in range
SliceInRange(s, kk) == kk - 1 <= Len(s)


----------------------------------------------------------------------------
(* dbg.rs: the doubled graph                                               *)

\* DBG::new
NewDBG(n) ==
    [out_edges |-> [v \in 0..(2 * n - 1) |-> <<>>],
     in_edges  |-> [v \in 0..(2 * n - 1) |-> <<>>],
     n_unitigs |-> n]

\* DBG::twin
twin(g, v) == (v + g.n_unitigs) % (2 * g.n_unitigs)

\* add_edge that enters the forward node of to_node whatever to_orientation is
add_edge_IgnoresToOrientation(g, from_node, to_node, from_orientation, to_orientation) ==
    LET v == from_node + (IF from_orientation = Reverse THEN 1 ELSE 0) * g.n_unitigs
        u == to_node
    IN  [g EXCEPT !.out_edges[v] = Append(@, u),
                  !.in_edges[u]  = Append(@, v)]

\* DBG::add_edge
add_edge(g, from_node, to_node, from_orientation, to_orientation) ==
    LET v == from_node + (IF from_orientation = Reverse THEN 1 ELSE 0) * g.n_unitigs
        u == to_node + (IF to_orientation = Reverse THEN 1 ELSE 0) * g.n_unitigs
    IN  [g EXCEPT !.out_edges[v] = Append(@, u),
                  !.in_edges[u]  = Append(@, v)]

\* DBG::insert_if_not_present
insert_if_not_present(map, key) ==
    IF key \in DOMAIN map THEN map ELSE map @@ (key :> <<>>)

MapValue(id, position) == [unitig_id |-> id, position |-> position]

\* the body of the "Build borders map" loop for unitig n0
BordersInsert(map, seqs, n0, kk) ==
    LET first == SlicePrefix(seqs[n0], kk - 1)
        last  == SliceSuffix(seqs[n0], kk - 1)
        m1 == insert_if_not_present(map, first)
        m2 == insert_if_not_present(m1, last)
        m3 == [m2 EXCEPT ![first] = Append(@, MapValue(n0, Start))]
    IN  [m3 EXCEPT ![last] = Append(@, MapValue(n0, End))]

\* borders.get(key): the occurrences, none when the key is absent
Occs(map, key) == IF key \in DOMAIN map THEN map[key] ELSE <<>>

\* AddMatches without "if right.position == position"
RECURSIVE AddMatches_AnyPosition(_, _, _, _, _, _)
AddMatches_AnyPosition(g, occs, position, n0, from_o, to_o) ==
    IF occs = <<>> THEN g
    ELSE AddMatches_AnyPosition(add_edge(g, n0, Head(occs).unitig_id, from_o, to_o),
                                Tail(occs), position, n0, from_o, to_o)

\* "for right in occs { if right.position == position { add_edge(..) } }"
RECURSIVE AddMatches(_, _, _, _, _, _)
AddMatches(g, occs, position, n0, from_o, to_o) ==
    IF occs = <<>> THEN g
    ELSE LET right == Head(occs)
             g1 == IF right.position = position
                    THEN add_edge(g, n0, right.unitig_id, from_o, to_o)
                    ELSE g
         IN  AddMatches(g1, Tail(occs), position, n0, from_o, to_o)

\* EdgesInsert without its last lookup: no (Reverse, Reverse) edges
EdgesInsert_NoReverseReverse(g, map, seqs, seqs_rc, n0, kk) ==
    LET last     == SliceSuffix(seqs[n0], kk - 1)
        first_rc == SliceSuffix(seqs_rc[n0], kk - 1)
        last_rc  == SlicePrefix(seqs_rc[n0], kk - 1)
        g1 == AddMatches(g,  Occs(map, last),     Start, n0, Forward, Forward)
        g2 == AddMatches(g1, Occs(map, last_rc),  End,   n0, Forward, Reverse)
    IN        AddMatches(g2, Occs(map, first_rc), Start, n0, Reverse, Forward)

\* EdgesInsert with first_rc and last_rc taken from the wrong ends of unitig_rc
EdgesInsert_SwappedRc(g, map, seqs, seqs_rc, n0, kk) ==
    LET first    == SlicePrefix(seqs[n0], kk - 1)
        last     == SliceSuffix(seqs[n0], kk - 1)
        first_rc == SlicePrefix(seqs_rc[n0], kk - 1)
        last_rc  == SliceSuffix(seqs_rc[n0], kk - 1)
        g1 == AddMatches(g,  Occs(map, last),     Start, n0, Forward, Forward)
        g2 == AddMatches(g1, Occs(map, last_rc),  End,   n0, Forward, Reverse)
        g3 == AddMatches(g2, Occs(map, first_rc), Start, n0, Reverse, Forward)
    IN        AddMatches(g3, Occs(map, first),    End,   n0, Reverse, Reverse)

\* the body of the "Building edges" loop for unitig n0
EdgesInsert(g, map, seqs, seqs_rc, n0, kk) ==
    LET first    == SlicePrefix(seqs[n0], kk - 1)
        last     == SliceSuffix(seqs[n0], kk - 1)
        first_rc == SliceSuffix(seqs_rc[n0], kk - 1)
        last_rc  == SlicePrefix(seqs_rc[n0], kk - 1)
        g1 == AddMatches(g,  Occs(map, last),     Start, n0, Forward, Forward)
        g2 == AddMatches(g1, Occs(map, last_rc),  End,   n0, Forward, Reverse)
        g3 == AddMatches(g2, Occs(map, first_rc), Start, n0, Reverse, Forward)
    IN        AddMatches(g3, Occs(map, first),    End,   n0, Reverse, Reverse)

\* DBG::build once the borders map is complete: the "Building edges" loop from n0 on
RECURSIVE EdgesLoop(_, _, _, _, _, _)
EdgesLoop(g, map, seqs, seqs_rc, n0, kk) ==
    IF n0 >= VecLen(seqs) THEN g
    ELSE EdgesLoop(EdgesInsert(g, map, seqs, seqs_rc, n0, kk), map, seqs, seqs_rc, n0 + 1, kk)

\* the "Build borders map" loop from n0 on
RECURSIVE BordersLoop(_, _, _, _)
BordersLoop(map, seqs, n0, kk) ==
    IF n0 >= VecLen(seqs) THEN map
    ELSE BordersLoop(BordersInsert(map, seqs, n0, kk), seqs, n0 + 1, kk)

\* DBG::build, for sequences none of which is shorter than k-1
build(seqs, seqs_rc, kk) ==
    EdgesLoop(NewDBG(VecLen(seqs)), BordersLoop(<<>>, seqs, 0, kk), seqs, seqs_rc, 0, kk)

----------------------------------------------------------------------------
(* The edge-tagged graph main.rs reads (dbg.edges, dbg::build_dbg).  That  *)
(* revision of the dbg module is not among the sources; it is modelled     *)
(* from sections 3 and 4.2 of the specification.                           *)

Edge(from, to, from_o, to_o) ==
    [from |-> from, to |-> to, from_orientation |-> from_o, to_orientation |-> to_o]

\* sequence id read under orientation o
Oriented(seqs, seqs_rc, id, o) == IF o = Forward THEN seqs[id] ELSE seqs_rc[id]

\* the length-(k-1) suffix of a equals the length-(k-1) prefix of b
Overlap(a, b, kk) == SliceSuffix(a, kk - 1) = SlicePrefix(b, kk - 1)

\* one row of the table of section 4.2: the matches j of unitig n0, from j0 on
RECURSIVE RowEdges(_, _, _, _, _, _, _)
RowEdges(seqs, seqs_rc, n0, j0, kk, from_o, to_o) ==
    IF j0 >= VecLen(seqs) THEN <<>>
    ELSE (IF Overlap(Oriented(seqs, seqs_rc, n0, from_o), Oriented(seqs, seqs_rc, j0, to_o), kk)
          THEN <<Edge(n0, j0, from_o, to_o)>> ELSE <<>>)
         \o RowEdges(seqs, seqs_rc, n0, j0 + 1, kk, from_o, to_o)

\* dbg::build_dbg: the outgoing edges of every unitig, rows in the table's order
build_dbg(seqs, seqs_rc, kk) ==
    [n0 \in DOMAIN seqs |->
        RowEdges(seqs, seqs_rc, n0, 0, kk, Forward, Forward)
     \o RowEdges(seqs, seqs_rc, n0, 0, kk, Forward, Reverse)
     \o RowEdges(seqs, seqs_rc, n0, 0, kk, Reverse, Forward)
     \o RowEdges(seqs, seqs_rc, n0, 0, kk, Reverse, Reverse)]

\* the ids of the sequences shorter than k-1 (section 7: invalid input)
TooShort(seqs, kk) == {id \in DOMAIN seqs : ~SliceInRange(seqs[id], kk)}

Min(S) == CHOOSE x \in S : \A y \in S : x <= y

----------------------------------------------------------------------------
(* lib.rs: the searches on the doubled graph.  A search state is the       *)
(* record [queue, visited, orientations].                                  *)

SearchState(q, vis, oris) == [queue |-> q, visited |-> vis, orientations |-> oris]

\* OrientationOf that forgets the direction of the search
OrientationOf_IgnoresDir(dir, v, g) == IF v < g.n_unitigs THEN Forward ELSE Reverse

\* match (dir, v < dbg.n_unitigs) of bfs and direction_switching_bfs
OrientationOf(dir, v, g) ==
    CASE dir = Forward  /\ v < g.n_unitigs    -> Forward
      [] dir = Forward  /\ ~(v < g.n_unitigs) -> Reverse
      [] dir = Backward /\ v < g.n_unitigs    -> Reverse
      [] dir = Backward /\ ~(v < g.n_unitigs) -> Forward

\* bfs_step that pushes the out-edges of v before it looks at visited
bfs_step_PushFirst(st, dir, g) ==
    LET v    == Head(st.queue)
        rest == Tail(st.queue) \o g.out_edges[v]
        id   == v % g.n_unitigs
    IN  IF st.visited[id] THEN [st EXCEPT !.queue = rest]
        ELSE SearchState(rest,
                         [st.visited EXCEPT ![id] = TRUE],
                         [st.orientations EXCEPT ![id] = OrientationOf(dir, v, g)])

\* bfs: one iteration of "while let Some(v) = queue.pop_front()"
bfs_step(st, dir, g) ==
    LET v    == Head(st.queue)
        rest == Tail(st.queue)
        id   == v % g.n_unitigs
    IN  IF st.visited[id] THEN [st EXCEPT !.queue = rest]
        ELSE SearchState(rest \o g.out_edges[v],
                         [st.visited EXCEPT ![id] = TRUE],
                         [st.orientations EXCEPT ![id] = OrientationOf(dir, v, g)])

\* bfs_root that starts the backward search at the root, not at its twin
bfs_root_NoTwin(r, dir, g) == r

\* bfs: the node the search starts from
bfs_root(r, dir, g) == IF dir = Backward THEN twin(g, r) ELSE r

RECURSIVE bfs_loop(_, _, _)
bfs_loop(st, dir, g) ==
    IF st.queue = <<>> THEN st ELSE bfs_loop(bfs_step(st, dir, g), dir, g)

\* bfs(root, dir, oris, visited, dbg)
bfs(r, dir, oris, vis, g) == bfs_loop(SearchState(<<bfs_root(r, dir, g)>>, vis, oris), dir, g)

\* "for &u in list { queue.push_back((u, dir)) }"
WithDir(list, dir) == [j \in 1..Len(list) |-> <<list[j], dir>>]

\* direction_switching_bfs: one iteration of its while loop
direction_switching_bfs_step(st, g) ==
    LET v    == Head(st.queue)[1]
        dir  == Head(st.queue)[2]
        rest == Tail(st.queue)
        id   == v % g.n_unitigs
    IN  IF st.visited[id] THEN [st EXCEPT !.queue = rest]
        ELSE SearchState(rest \o WithDir(g.out_edges[v], dir)
                              \o WithDir(g.out_edges[twin(g, v)], dir_flip(dir)),
                         [st.visited EXCEPT ![id] = TRUE],
                         [st.orientations EXCEPT ![id] = OrientationOf(dir, v, g)])

RECURSIVE direction_switching_bfs_loop(_, _)
direction_switching_bfs_loop(st, g) ==
    IF st.queue = <<>> THEN st
    ELSE direction_switching_bfs_loop(direction_switching_bfs_step(st, g), g)

\* direction_switching_bfs(root, root_dir, oris, visited, dbg)
direction_switching_bfs(r, root_dir, oris, vis, g) ==
    direction_switching_bfs_loop(
        SearchState(<<(<<bfs_root(r, root_dir, g), root_dir>>)>>, vis, oris), g)

AllForward(n) == [id \in 0..(n - 1) |-> Forward]
NoneVisited(n) == [id \in 0..(n - 1) |-> FALSE]

\* pick_orientations_with_non_switching_bfs: the body of "for v in 0..n"
non_switching_body(st, v, g) ==
    IF ~st.visited[v]
    THEN LET fw == bfs(v, Forward, st.orientations, st.visited, g)
         IN  bfs(v, Backward, fw.orientations, [fw.visited EXCEPT ![v] = FALSE], g)
    ELSE st

RECURSIVE non_switching_loop(_, _, _)
non_switching_loop(st, v, g) ==
    IF v >= g.n_unitigs THEN st
    ELSE non_switching_loop(non_switching_body(st, v, g), v + 1, g)

pick_orientations_with_non_switching_bfs(g) ==
    non_switching_loop(SearchState(<<>>, NoneVisited(g.n_unitigs), AllForward(g.n_unitigs)),
                       0, g).orientations

RECURSIVE switching_loop(_, _, _)
switching_loop(st, v, g) ==
    IF v >= g.n_unitigs THEN st
    ELSE switching_loop(
            direction_switching_bfs(v, Forward, st.orientations, st.visited, g), v + 1, g)

pick_orientations_with_switching_bfs(g) ==
    switching_loop(SearchState(<<>>, NoneVisited(g.n_unitigs), AllForward(g.n_unitigs)),
                   0, g).orientations

\* evaluate_edges that does not look at the orientation chosen for u
RECURSIVE evaluate_edges_IgnoresTarget(_, _, _, _, _)
evaluate_edges_IgnoresTarget(has_pred, choices, g, v, j) ==
    IF j > Len(g.out_edges[v]) THEN has_pred
    ELSE LET n == g.n_unitigs
             u == g.out_edges[v][j]
             v_flipped == (choices[v % n] = Reverse)
             hp == IF v_flipped = (v >= n)
                   THEN [has_pred EXCEPT ![u % n] = TRUE]
                   ELSE has_pred
         IN  evaluate_edges_IgnoresTarget(hp, choices, g, v, j + 1)

\* lib.rs evaluate: the inner loop over out_edges[v], from position j on
RECURSIVE evaluate_edges(_, _, _, _, _)
evaluate_edges(has_pred, choices, g, v, j) ==
    IF j > Len(g.out_edges[v]) THEN has_pred
    ELSE LET n == g.n_unitigs
             u == g.out_edges[v][j]
             v_flipped == (choices[v % n] = Reverse)
             u_flipped == (choices[u % n] = Reverse)
             hp == IF (v_flipped = (v >= n)) /\ (u_flipped = (u >= n))
                   THEN [has_pred EXCEPT ![u % n] = TRUE]
                   ELSE has_pred
         IN  evaluate_edges(hp, choices, g, v, j + 1)

RECURSIVE evaluate_nodes(_, _, _, _)
evaluate_nodes(has_pred, choices, g, v) ==
    IF v >= 2 * g.n_unitigs THEN has_pred
    ELSE evaluate_nodes(evaluate_edges(has_pred, choices, g, v, 1), choices, g, v + 1)

\* CountTrue whose fold starts from 1
CountTrue_FoldFromOne(bits) == 1 + Cardinality({id \in DOMAIN bits : bits[id]})

\* has_pred.iter().fold(0, |sum, &x| sum + x as usize)
CountTrue(bits) == Cardinality({id \in DOMAIN bits : bits[id]})

\* lib.rs evaluate
evaluate(choices, g) == CountTrue(evaluate_nodes(NoneVisited(g.n_unitigs), choices, g, 0))

----------------------------------------------------------------------------
(* main.rs: the terminal-first assignment on the edge-tagged graph         *)

\* is_terminal_loop without "if e.from == e.to { continue }"
RECURSIVE is_terminal_loop_CountsSelfLoops(_, _, _, _)
is_terminal_loop_CountsSelfLoops(list, j, has_fw, has_bw) ==
    IF j > Len(list) THEN ~(has_fw /\ has_bw)
    ELSE is_terminal_loop_CountsSelfLoops(list, j + 1,
                                          has_fw \/ (list[j].from_orientation = Forward),
                                          has_bw \/ (list[j].from_orientation = Reverse))

\* is_terminal: the loop over dbg.edges[unitig_id], from position j on
RECURSIVE is_terminal_loop(_, _, _, _)
is_terminal_loop(list, j, has_fw, has_bw) ==
    IF j > Len(list) THEN ~(has_fw /\ has_bw)
    ELSE LET e == list[j]
         IN  IF e.from = e.to
             THEN is_terminal_loop(list, j + 1, has_fw, has_bw)
             ELSE is_terminal_loop(list, j + 1,
                                   has_fw \/ (e.from_orientation = Forward),
                                   has_bw \/ (e.from_orientation = Reverse))

is_terminal(es, unitig_id) == is_terminal_loop(es[unitig_id], 1, FALSE, FALSE)

\* PushedFor that flips on every edge
PushedFor_AlwaysFlip(edge, orientation) == <<edge.to, flip(orientation)>>

\* PushedFor that never flips
PushedFor_NoFlip(edge, orientation) == <<edge.to, orientation>>

\* bfs_from: what the match on an edge pushes
PushedFor(edge, orientation) ==
    CASE edge.from_orientation = Forward /\ edge.to_orientation = Forward -> <<edge.to, orientation>>
      [] edge.from_orientation = Forward /\ edge.to_orientation = Reverse -> <<edge.to, flip(orientation)>>
      [] edge.from_orientation = Reverse /\ edge.to_orientation = Forward -> <<edge.to, flip(orientation)>>
      [] edge.from_orientation = Reverse /\ edge.to_orientation = Reverse -> <<edge.to, orientation>>

\* PushEdges without "if edge.from_orientation != orientation { continue }"
RECURSIVE PushEdges_AllEdges(_, _, _, _)
PushEdges_AllEdges(q, list, j, orientation) ==
    IF j > Len(list) THEN q
    ELSE PushEdges_AllEdges(Append(q, <<list[j].to, orientation>>), list, j + 1, orientation)

\* bfs_from: "for edge in dbg.edges[unitig_id].iter()", from position j on
RECURSIVE PushEdges(_, _, _, _)
PushEdges(q, list, j, orientation) ==
    IF j > Len(list) THEN q
    ELSE IF list[j].from_orientation # orientation
         THEN PushEdges(q, list, j + 1, orientation)
         ELSE PushEdges(Append(q, PushedFor(list[j], orientation)), list, j + 1, orientation)

\* bfs_from_step that writes the orientation before it looks at visited
bfs_from_step_CommitFirst(st, es) ==
    LET unitig_id   == Head(st.queue)[1]
        orientation == Head(st.queue)[2]
        rest        == Tail(st.queue)
        oris        == [st.orientations EXCEPT ![unitig_id] = orientation]
    IN  IF st.visited[unitig_id] THEN SearchState(rest, st.visited, oris)
        ELSE SearchState(PushEdges(rest, es[unitig_id], 1, orientation),
                         [st.visited EXCEPT ![unitig_id] = TRUE],
                         oris)

\* bfs_from: one iteration of "while let Some((unitig_id, orientation)) = queue.pop_front()"
bfs_from_step(st, es) ==
    LET unitig_id   == Head(st.queue)[1]
        orientation == Head(st.queue)[2]
        rest        == Tail(st.queue)
    IN  IF st.visited[unitig_id] THEN [st EXCEPT !.queue = rest]
        ELSE SearchState(PushEdges(rest, es[unitig_id], 1, orientation),
                         [st.visited EXCEPT ![unitig_id] = TRUE],
                         [st.orientations EXCEPT ![unitig_id] = orientation])

\* bfs_from_start that orients the root as Reverse
bfs_from_start_Reverse(r) == <<(<<r, Reverse>>)>>

\* bfs_from: the queue it starts with
bfs_from_start(r) == <<(<<r, Forward>>)>>

RECURSIVE bfs_from_loop(_, _)
bfs_from_loop(st, es) ==
    IF st.queue = <<>> THEN st ELSE bfs_from_loop(bfs_from_step(st, es), es)

\* bfs_from(root, dbg, visited, orientations)
bfs_from(r, es, vis, oris) == bfs_from_loop(SearchState(bfs_from_start(r), vis, oris), es)

\* pick_orientations: does the loop of this phase start a search at component_root
StartsSearch(ph, component_root, es, vis) ==
    IF ph = 1
    THEN is_terminal(es, component_root) /\ ~vis[component_root]
    ELSE ~vis[component_root]

RECURSIVE pick_loop(_, _, _, _)
pick_loop(st, ph, component_root, es) ==
    IF component_root >= VecLen(es) THEN st
    ELSE pick_loop(IF StartsSearch(ph, component_root, es, st.visited)
                   THEN bfs_from(component_root, es, st.visited, st.orientations)
                   ELSE st,
                   ph, component_root + 1, es)

\* main.rs pick_orientations
pick_orientations(es) ==
    LET n  == VecLen(es)
        p1 == pick_loop(SearchState(<<>>, NoneVisited(n), AllForward(n)), 1, 0, es)
    IN  pick_loop(p1, 2, 0, es).orientations

\* main.rs evaluate: the loop over dbg.edges[v], from position j on
RECURSIVE main_evaluate_edges(_, _, _, _, _)
main_evaluate_edges(has_pred, choices, es, v, j) ==
    IF j > Len(es[v]) THEN has_pred
    ELSE LET edge == es[v][j]
             u == edge.to
             hp == IF choices[v] = edge.from_orientation /\ choices[u] = edge.to_orientation
                   THEN [has_pred EXCEPT ![u] = TRUE]
                   ELSE has_pred
         IN  main_evaluate_edges(hp, choices, es, v, j + 1)

RECURSIVE main_evaluate_nodes(_, _, _, _)
main_evaluate_nodes(has_pred, choices, es, v) ==
    IF v >= VecLen(es) THEN has_pred
    ELSE main_evaluate_nodes(main_evaluate_edges(has_pred, choices, es, v, 1), choices, es, v + 1)

\* main.rs evaluate
main_evaluate(choices, es) ==
    CountTrue(main_evaluate_nodes(NoneVisited(VecLen(es)), choices, es, 0))

----------------------------------------------------------------------------
(* Inputs                                                                  *)

\* the DNA strings of length len
Strings(len) == [1..len -> Alphabet]

\* the lists of non-empty sequences with at most budget letters in all
RECURSIVE InputsWithin(_)
InputsWithin(budget) ==
    {<<>>} \cup UNION {{<<s>> \o rest_in : s \in Strings(len), rest_in \in InputsWithin(budget - len)}
                        : len \in 1..budget}

\* a list as the 0-based SeqDB
AsDB(list) == [id \in 0..(Len(list) - 1) |-> list[id + 1]]

\* rc_db: optimize_unitig_orientation, helper_get_seq_dbs, into_db_with_revcomp
RcDB(db) == [id \in DOMAIN db |-> reverse_complement(db[id])]

NoError == [kind |-> "none"]
NoDBG == NewDBG(0)

\* the state when the sequences have been read and build is entered
InitWith(list, kk) ==
    /\ prog \in {"lib", "main"}
    /\ alg = "none"
    /\ unitigs = AsDB(list)
    /\ unitigs_rc = RcDB(AsDB(list))
    /\ k = kk
    /\ pc = IF prog = "lib" THEN "borders" ELSE "build_dbg"
    /\ i = 0
    /\ borders = <<>>
    /\ dbg = NoDBG
    /\ edges = <<>>
    /\ phase = 0
    /\ bfs_dir = Forward
    /\ root = 0
    /\ queue = <<>>
    /\ visited = <<>>
    /\ orientations = <<>>
    /\ n_components = 0
    /\ score = -1
    /\ error = NoError
    /\ pushed_by = <<>>
    /\ tree = <<>>

Init == \E list \in InputsWithin(MaxLetters), kk \in 2..MaxK : InitWith(list, kk)

n_unitigs == VecLen(unitigs)

----------------------------------------------------------------------------
(* The history of the searches: which expansion pushed each queue entry,   *)
(* and which entry committed each id.  The program does not keep it.       *)

\* the id of the entry at the head of the queue
HeadId ==
    CASE pc = "bfs"           -> Head(queue) % n_unitigs
      [] pc = "switching_bfs" -> Head(queue)[1] % n_unitigs
      [] pc = "bfs_from"      -> Head(queue)[1]

\* no id committed yet
NoTree(n) == [id \in 0..(n - 1) |-> [parent |-> -2, dir |-> "none"]]

\* outside the steps of a search the queue is empty or holds a root
RootEntries(q) == [j \in 1..Len(q) |-> -1]

\* a step of a search walking in direction d: the entries it appended were
\* pushed by the id of the entry it popped, and if it committed that id,
\* the id was committed by that entry
TrackStep(d) ==
    /\ pushed_by' = Tail(pushed_by) \o [j \in 1..(Len(queue') - Len(queue) + 1) |-> HeadId]
    /\ tree' = IF ~visited[HeadId] /\ visited'[HeadId]
               THEN [tree EXCEPT ![HeadId] = [parent |-> Head(pushed_by), dir |-> d]]
               ELSE tree

----------------------------------------------------------------------------
(* DBG::build, step by step                                                *)

\* one iteration of the "Build borders map" loop; the slice of a sequence
\* shorter than k-1 panics (dbg.rs line 72) with the map as it stands
BuildBorders ==
    /\ pc = "borders"
    /\ i < n_unitigs
    /\ IF SliceInRange(unitigs[i], k)
       THEN /\ borders' = BordersInsert(borders, unitigs, i, k)
            /\ i' = i + 1
            /\ UNCHANGED <<pc, error>>
       ELSE /\ pc' = "panic"
            /\ error' = [kind |-> "slice_index_out_of_range", end |-> k - 1, len |-> Len(unitigs[i])]
            /\ UNCHANGED <<borders, i>>
    /\ UNCHANGED <<prog, alg, unitigs, unitigs_rc, k, dbg, edges, phase, bfs_dir, root, queue,
                   visited, orientations, n_components, score>>
    /\ UNCHANGED <<pushed_by, tree>>

\* the borders loop ends: DBG::new(n)
BordersDone ==
    /\ pc = "borders"
    /\ i = n_unitigs
    /\ dbg' = NewDBG(n_unitigs)
    /\ i' = 0
    /\ pc' = "edges"
    /\ UNCHANGED <<prog, alg, unitigs, unitigs_rc, k, borders, edges, phase, bfs_dir, root, queue,
                   visited, orientations, n_components, score, error>>
    /\ UNCHANGED <<pushed_by, tree>>

\* one iteration of the "Building edges" loop
BuildEdges ==
    /\ pc = "edges"
    /\ i < n_unitigs
    /\ dbg' = EdgesInsert(dbg, borders, unitigs, unitigs_rc, i, k)
    /\ i' = i + 1
    /\ UNCHANGED <<prog, alg, unitigs, unitigs_rc, k, pc, borders, edges, phase, bfs_dir, root,
                   queue, visited, orientations, n_components, score, error>>
    /\ UNCHANGED <<pushed_by, tree>>

\* build returns the graph
BuildDone ==
    /\ pc = "edges"
    /\ i = n_unitigs
    /\ pc' = "pick"
    /\ UNCHANGED <<prog, alg, unitigs, unitigs_rc, k, i, borders, dbg, edges, phase, bfs_dir, root,
                   queue, visited, orientations, n_components, score, error>>
    /\ UNCHANGED <<pushed_by, tree>>

\* main.rs run: dbg::build_dbg; a sequence shorter than k-1 is reported
\* before anything is built (section 7)
BuildDbg ==
    /\ pc = "build_dbg"
    /\ IF TooShort(unitigs, k) = {}
       THEN /\ edges' = build_dbg(unitigs, unitigs_rc, k)
            /\ pc' = "pick"
            /\ UNCHANGED error
       ELSE /\ pc' = "error"
            /\ error' = [kind |-> "invalid_sequence_length", id |-> Min(TooShort(unitigs, k)), k |-> k]
            /\ UNCHANGED edges
    /\ UNCHANGED <<prog, alg, unitigs, unitigs_rc, k, i, borders, dbg, phase, bfs_dir, root, queue,
                   visited, orientations, n_components, score>>
    /\ UNCHANGED <<pushed_by, tree>>

----------------------------------------------------------------------------
(* lib.rs: pick_orientations_with_non_switching_bfs, step by step          *)

Search == SearchState(queue, visited, orientations)

SetSearch(st) ==
    /\ queue' = st.queue
    /\ visited' = st.visited
    /\ orientations' = st.orientations

\* the caller enters pick_orientations_with_non_switching_bfs
NonSwitchingEnter ==
    /\ pc = "pick"
    /\ prog = "lib"
    /\ alg' = "non_switching"
    /\ SetSearch(SearchState(<<>>, NoneVisited(n_unitigs), AllForward(n_unitigs)))
    /\ root' = 0
    /\ pc' = "non_switching"
    /\ UNCHANGED <<prog, unitigs, unitigs_rc, k, i, borders, dbg, edges, phase, bfs_dir,
                   n_components, score, error>>
    /\ pushed_by' = <<>>
    /\ tree' = NoTree(n_unitigs)

\* "for v in 0..n { if !visited[v] { bfs(v, Forward, ..) .. } }": the loop head
NonSwitchingNext ==
    /\ pc = "non_switching"
    /\ IF root >= n_unitigs
       THEN /\ pc' = "evaluate"
            /\ UNCHANGED <<root, queue, bfs_dir>>
       ELSE IF visited[root]
            THEN /\ root' = root + 1
                 /\ UNCHANGED <<pc, queue, bfs_dir>>
            ELSE /\ bfs_dir' = Forward
                 /\ queue' = <<bfs_root(root, Forward, dbg)>>
                 /\ pc' = "bfs"
                 /\ UNCHANGED root
    /\ UNCHANGED <<prog, alg, unitigs, unitigs_rc, k, i, borders, dbg, edges, phase, visited,
                   orientations, n_components, score, error>>
    /\ pushed_by' = RootEntries(queue')
    /\ UNCHANGED tree

\* bfs: one iteration of its while loop
BfsStep ==
    /\ pc = "bfs"
    /\ queue # <<>>
    /\ SetSearch(bfs_step(Search, bfs_dir, dbg))
    /\ UNCHANGED <<prog, alg, unitigs, unitigs_rc, k, pc, i, borders, dbg, edges, phase, bfs_dir,
                   root, n_components, score, error>>
    /\ TrackStep(bfs_dir)

\* BfsReturn without "visited[v] = false"
BfsReturn_NoReset ==
    /\ pc = "bfs"
    /\ queue = <<>>
    /\ IF bfs_dir = Forward
       THEN /\ bfs_dir' = Backward
            /\ queue' = <<bfs_root(root, Backward, dbg)>>
            /\ UNCHANGED <<pc, root, visited>>
       ELSE /\ root' = root + 1
            /\ pc' = "non_switching"
            /\ UNCHANGED <<visited, bfs_dir, queue>>
    /\ UNCHANGED <<prog, alg, unitigs, unitigs_rc, k, i, borders, dbg, edges, phase,
                   orientations, n_components, score, error>>
    /\ pushed_by' = RootEntries(queue')
    /\ UNCHANGED tree

\* bfs returns: after the forward search, "visited[v] = false" and the
\* backward search starts; after the backward search, the next v
BfsReturn ==
    /\ pc = "bfs"
    /\ queue = <<>>
    /\ IF bfs_dir = Forward
       THEN /\ visited' = [visited EXCEPT ![root] = FALSE]
            /\ bfs_dir' = Backward
            /\ queue' = <<bfs_root(root, Backward, dbg)>>
            /\ UNCHANGED <<pc, root>>
       ELSE /\ root' = root + 1
            /\ pc' = "non_switching"
            /\ UNCHANGED <<visited, bfs_dir, queue>>
    /\ UNCHANGED <<prog, alg, unitigs, unitigs_rc, k, i, borders, dbg, edges, phase,
                   orientations, n_components, score, error>>
    /\ pushed_by' = RootEntries(queue')
    /\ UNCHANGED tree

----------------------------------------------------------------------------
(* lib.rs: pick_orientations_with_switching_bfs, step by step              *)

SwitchingEnter ==
    /\ pc = "pick"
    /\ prog = "lib"
    /\ alg' = "switching"
    /\ SetSearch(SearchState(<<>>, NoneVisited(n_unitigs), AllForward(n_unitigs)))
    /\ root' = 0
    /\ pc' = "switching"
    /\ UNCHANGED <<prog, unitigs, unitigs_rc, k, i, borders, dbg, edges, phase, bfs_dir,
                   n_components, score, error>>
    /\ pushed_by' = <<>>
    /\ tree' = NoTree(n_unitigs)

\* "for v in 0..n { direction_switching_bfs(v, Forward, ..) }": the loop head
SwitchingNext ==
    /\ pc = "switching"
    /\ IF root >= n_unitigs
       THEN /\ pc' = "evaluate"
            /\ UNCHANGED queue
       ELSE /\ queue' = <<(<<bfs_root(root, Forward, dbg), Forward>>)>>
            /\ pc' = "switching_bfs"
    /\ UNCHANGED <<prog, alg, unitigs, unitigs_rc, k, i, borders, dbg, edges, phase, bfs_dir, root,
                   visited, orientations, n_components, score, error>>
    /\ pushed_by' = RootEntries(queue')
    /\ UNCHANGED tree

SwitchingBfsStep ==
    /\ pc = "switching_bfs"
    /\ queue # <<>>
    /\ SetSearch(direction_switching_bfs_step(Search, dbg))
    /\ UNCHANGED <<prog, alg, unitigs, unitigs_rc, k, pc, i, borders, dbg, edges, phase, bfs_dir,
                   root, n_components, score, error>>
    /\ TrackStep(Head(queue)[2])

SwitchingBfsReturn ==
    /\ pc = "switching_bfs"
    /\ queue = <<>>
    /\ root' = root + 1
    /\ pc' = "switching"
    /\ UNCHANGED <<prog, alg, unitigs, unitigs_rc, k, i, borders, dbg, edges, phase, bfs_dir, queue,
                   visited, orientations, n_components, score, error>>
    /\ pushed_by' = RootEntries(queue')
    /\ UNCHANGED tree

----------------------------------------------------------------------------
(* main.rs: pick_orientations, step by step                                *)

PickEnter ==
    /\ pc = "pick"
    /\ prog = "main"
    /\ alg' = "terminal_first"
    /\ SetSearch(SearchState(<<>>, NoneVisited(n_unitigs), AllForward(n_unitigs)))
    /\ n_components' = 0
    /\ phase' = 1
    /\ root' = 0
    /\ pc' = "pick_loop"
    /\ UNCHANGED <<prog, unitigs, unitigs_rc, k, i, borders, dbg, edges, bfs_dir, score, error>>
    /\ pushed_by' = <<>>
    /\ tree' = NoTree(n_unitigs)

\* the head of the two "for component_root in 0..n" loops
PickNext ==
    /\ pc = "pick_loop"
    /\ IF root >= n_unitigs
       THEN IF phase = 1
            THEN /\ phase' = 2
                 /\ root' = 0
                 /\ UNCHANGED <<pc, queue>>
            ELSE /\ pc' = "evaluate"
                 /\ UNCHANGED <<phase, root, queue>>
       ELSE IF StartsSearch(phase, root, edges, visited)
            THEN /\ queue' = bfs_from_start(root)
                 /\ pc' = "bfs_from"
                 /\ UNCHANGED <<phase, root>>
            ELSE /\ root' = root + 1
                 /\ UNCHANGED <<pc, phase, queue>>
    /\ UNCHANGED <<prog, alg, unitigs, unitigs_rc, k, i, borders, dbg, edges, bfs_dir, visited,
                   orientations, n_components, score, error>>
    /\ pushed_by' = RootEntries(queue')
    /\ UNCHANGED tree

\* bfs_from: one iteration of its while loop
BfsFromStep ==
    /\ pc = "bfs_from"
    /\ queue # <<>>
    /\ SetSearch(bfs_from_step(Search, edges))
    /\ UNCHANGED <<prog, alg, unitigs, unitigs_rc, k, pc, i, borders, dbg, edges, phase, bfs_dir,
                   root, n_components, score, error>>
    /\ TrackStep(Forward)

\* bfs_from returns: "n_components += 1"
BfsFromReturn ==
    /\ pc = "bfs_from"
    /\ queue = <<>>
    /\ n_components' = n_components + 1
    /\ root' = root + 1
    /\ pc' = "pick_loop"
    /\ UNCHANGED <<prog, alg, unitigs, unitigs_rc, k, i, borders, dbg, edges, phase, bfs_dir, queue,
                   visited, orientations, score, error>>
    /\ pushed_by' = RootEntries(queue')
    /\ UNCHANGED tree

----------------------------------------------------------------------------
(* evaluate                                                                *)

\* Evaluate that leaves the assignment reset to all Forward
Evaluate_ResetsChoices ==
    /\ pc = "evaluate"
    /\ score' = IF prog = "lib" THEN evaluate(orientations, dbg)
                ELSE main_evaluate(orientations, edges)
    /\ orientations' = AllForward(n_unitigs)
    /\ pc' = "done"
    /\ UNCHANGED <<prog, alg, unitigs, unitigs_rc, k, i, borders, dbg, edges, phase, bfs_dir, root,
                   queue, visited, n_components, error>>
    /\ UNCHANGED <<pushed_by, tree>>

\* the caller scores the assignment: lib.rs evaluate, or main.rs evaluate in run
Evaluate ==
    /\ pc = "evaluate"
    /\ score' = IF prog = "lib" THEN evaluate(orientations, dbg)
                ELSE main_evaluate(orientations, edges)
    /\ pc' = "done"
    /\ UNCHANGED <<prog, alg, unitigs, unitigs_rc, k, i, borders, dbg, edges, phase, bfs_dir, root,
                   queue, visited, orientations, n_components, error>>
    /\ UNCHANGED <<pushed_by, tree>>

Next ==
    \/ BuildBorders \/ BordersDone \/ BuildEdges \/ BuildDone \/ BuildDbg
    \/ NonSwitchingEnter \/ NonSwitchingNext \/ BfsStep \/ BfsReturn
    \/ SwitchingEnter \/ SwitchingNext \/ SwitchingBfsStep \/ SwitchingBfsReturn
    \/ PickEnter \/ PickNext \/ BfsFromStep \/ BfsFromReturn
    \/ Evaluate

Spec == Init /\ [][Next]_vars

----------------------------------------------------------------------------
(* The inputs of the tests                                                 *)

\* tests::straight_line (lib.rs and main.rs): data, with k = 3
straight_line ==
    <<<<"T", "C", "G">>,
      <<"A", "T", "C">>,
      <<"A", "T", "G">>,
      <<"A", "C", "C">>,
      <<"C", "C", "G">>>>

\* tests::sanity_check_algorithms: the 100 letters generate_random_dna_string(100, 123)
\* is taken to return.  What the scenario uses of them is the layout: among the
\* borders of the six sequences below, the only overlaps are those of the drawing
\*     o--\          /--o
\*         >--------<
\*     o--/          \--o
S ==
       <<"T", "T", "A", "T", "A", "T", "G", "A", "T", "T", "C", "G", "C", "T", "G", "A", "C", "C", "C", "C">>
    \o <<"T", "A", "C", "A", "T", "C", "T", "A", "G", "T", "A", "A", "T", "C", "A", "G", "A", "T", "T", "T">>
    \o <<"G", "T", "C", "C", "T", "G", "C", "T", "T", "G", "G", "C", "A", "C", "C", "T", "C", "A", "T", "A">>
    \o <<"A", "A", "A", "G", "A", "A", "G", "T", "G", "C", "G", "T", "G", "G", "G", "G", "A", "T", "T", "T">>
    \o <<"A", "A", "C", "T", "A", "A", "A", "C", "G", "T", "A", "C", "A", "A", "G", "T", "G", "A", "C", "T">>

\* S[a..b] of the test
Slice(a, b) == SubSeq(S, a + 1, b)

\* tests::change
change(c) ==
    CASE c = "A" -> "C"
      [] c = "C" -> "G"
      [] c = "G" -> "T"
      [] c = "T" -> "A"

s1 == Slice(20, 30)
s2 == [s1 EXCEPT ![1] = change(s1[1])]
s_middle == reverse_complement(Slice(21, 31))
s_middle2 == Slice(22, 50)
s3 == Slice(41, 51)
s4 == [s3 EXCEPT ![10] = change(s3[10])]

\* the input of the switching run of sanity_check_algorithms
branch_merge == <<s1, s2, s_middle, s_middle2, s3, s4>>
\* the input of its non-switching run
branch_merge_middle_first == <<s_middle, s1, s2, s_middle2, s3, s4>>

InitScenario ==
    \/ InitWith(straight_line, 3)
    \/ InitWith(branch_merge, 10)
    \/ InitWith(branch_merge_middle_first, 10)

SpecScenario == InitScenario /\ [][Next]_vars

\* the inputs of the runs checked for termination
InitLive == \E list \in InputsWithin(MaxLettersLive), kk \in 2..MaxK : InitWith(list, kk)

\* the program is single-threaded and runs on: an enabled step is taken
SpecLive == InitLive /\ [][Next]_vars /\ WF_vars(Next)

----------------------------------------------------------------------------
(* Properties                                                              *)

\* DBG::build returns its graph, which nothing writes afterwards
Built == prog = "lib" /\ pc = "pick"

\* how many times x occurs in a list
Count(list, x) == Cardinality({j \in 1..Len(list) : list[j] = x})

\* the node of the doubled graph for unitig id read under orientation o
Node(id, o) == id + (IF o = Reverse THEN n_unitigs ELSE 0)

\* C1: in the graph DBG::build returns, every edge v -> u has its mirror
\* twin(u) -> twin(v), as many times as v -> u occurs: edge (u, v, ou, ov)
\* comes with edge (v, u, flip(ov), flip(ou)).
C1_Symmetry ==
    Built =>
        \A v \in DOMAIN dbg.out_edges, u \in DOMAIN dbg.out_edges :
            Count(dbg.out_edges[v], u) = Count(dbg.out_edges[twin(dbg, u)], twin(dbg, v))

\* a built graph with an edge between two different unitigs that leaves a
\* forward node and enters a reverse node
C1_Witness ==
    /\ Built
    /\ \E v \in 0..(n_unitigs - 1), u \in n_unitigs..(2 * n_unitigs - 1) :
          /\ u % n_unitigs # v
          /\ Count(dbg.out_edges[v], u) = 1

InPick == prog = "main" /\ pc \in {"pick_loop", "bfs_from"}
Returned == pc \in {"evaluate", "done"}

\* C3: main.rs pick_orientations returns n orientations with every id
\* visited, and while it runs a visited id stays visited and keeps its
\* orientation: an entry changes only in the step that commits its id.
C3_WriteOnce ==
    /\ [](prog = "main" /\ Returned =>
            /\ DOMAIN orientations = 0..(n_unitigs - 1)
            /\ \A id \in 0..(n_unitigs - 1) :
                  visited[id] /\ orientations[id] \in Orientation)
    /\ [][InPick /\ prog' = "main" =>
            \A id \in 0..(n_unitigs - 1) :
                /\ visited[id] => visited'[id] /\ orientations'[id] = orientations[id]
                /\ orientations'[id] # orientations[id] => ~visited[id] /\ visited'[id]]_vars

\* bfs_from is about to pop an entry for a committed id that asks for the
\* other orientation
C3_Witness ==
    /\ pc = "bfs_from"
    /\ queue # <<>>
    /\ visited[Head(queue)[1]]
    /\ orientations[Head(queue)[1]] # Head(queue)[2]
    /\ n_unitigs >= 2

\* main.rs run: the records it writes
Output == [id \in DOMAIN unitigs |->
              IF orientations[id] = Forward THEN unitigs[id] ELSE reverse_complement(unitigs[id])]

\* tests::straight_line: the two answers
ans1 == AsDB(<<Reverse, Reverse, Forward, Forward, Forward>>)
ans2 == AsDB(<<Forward, Forward, Reverse, Reverse, Reverse>>)
ans1_seqs ==
    AsDB(<<<<"C", "G", "A">>, <<"G", "A", "T">>, <<"A", "T", "G">>, <<"A", "C", "C">>,
           <<"C", "C", "G">>>>)
ans2_seqs == [id \in DOMAIN ans1_seqs |-> reverse_complement(ans1_seqs[id])]

IsStraightLine == unitigs = AsDB(straight_line) /\ k = 3

\* C4: on TCG, ATC, ATG, ACC, CCG with k = 3, optimize_unitig_orientation
\* (the non-switching search) and main.rs pick_orientations return ans1 or
\* ans2, and the sequences written are the chain or its reverse complement.
C4_StraightLine ==
    IsStraightLine /\ Returned /\ alg \in {"non_switching", "terminal_first"} =>
        \/ orientations = ans1 /\ Output = ans1_seqs
        \/ orientations = ans2 /\ Output = ans2_seqs

\* optimize_unitig_orientation has returned on the straight line
C4_Witness ==
    /\ IsStraightLine
    /\ pc = "done"
    /\ alg = "non_switching"
    /\ orientations = ans2

IsBranchMerge == k = 10 /\ unitigs \in {AsDB(branch_merge), AsDB(branch_merge_middle_first)}

\* C5: on the branch/merge input, in either order of the tests, the
\* assignment of main.rs pick_orientations leaves 2 unitigs without a
\* predecessor.
C5_BranchMergeMain ==
    IsBranchMerge /\ prog = "main" /\ pc = "done" => n_unitigs - score = 2

\* main.rs has scored its assignment of the branch/merge input
C5_Witness ==
    /\ IsBranchMerge
    /\ unitigs[2] = s_middle
    /\ prog = "main"
    /\ pc = "done"
    /\ score = 4

\* C6: sanity_check_algorithms: the switching search on s1, s2, s_middle,
\* s_middle2, s3, s4 and the non-switching search on s_middle, s1, s2,
\* s_middle2, s3, s4 both leave 2 unitigs without a predecessor.
C6_BranchMergeLib ==
    /\ k = 10 /\ unitigs = AsDB(branch_merge) /\ alg = "switching" /\ pc = "done"
          => dbg.n_unitigs - score = 2
    /\ k = 10 /\ unitigs = AsDB(branch_merge_middle_first) /\ alg = "non_switching" /\ pc = "done"
          => dbg.n_unitigs - score = 2

\* the switching search has committed the middle unitig walking backward
\* and the run has been scored
C6_Witness ==
    /\ k = 10
    /\ unitigs = AsDB(branch_merge)
    /\ alg = "switching"
    /\ pc = "done"
    /\ orientations[2] = Reverse
    /\ score = 4

\* the input with the sequences of F replaced by their reverse complements
PreFlip(seqs, F) == [id \in DOMAIN seqs |-> IF id \in F THEN reverse_complement(seqs[id]) ELSE seqs[id]]

\* orientation o of an id, as it reads once the ids of F are pre-flipped
Relabel(id, o, F) == IF id \in F THEN flip(o) ELSE o

\* the graph DBG::build returns for seqs is g with the tags of the ids of F flipped
IsRelabelled(g_flipped, g, F) ==
    /\ g_flipped.n_unitigs = g.n_unitigs
    /\ \A a \in 0..(g.n_unitigs - 1), b \in 0..(g.n_unitigs - 1), oa \in Orientation, ob \in Orientation :
          Count(g_flipped.out_edges[Node(a, oa)], Node(b, ob)) =
              Count(g.out_edges[Node(a, Relabel(a, oa, F))], Node(b, Relabel(b, ob, F)))

\* the score of optimize_unitig_orientation's assignment for the input seqs
LibScore(seqs, kk) ==
    LET g == build(seqs, RcDB(seqs), kk)
    IN  evaluate(pick_orientations_with_non_switching_bfs(g), g)

\* the score main.rs run reports for the input seqs
MainScore(seqs, kk) ==
    LET es == build_dbg(seqs, RcDB(seqs), kk)
    IN  main_evaluate(pick_orientations(es), es)

\* C7 as amended: DBG::build of a pre-flipped input returns the graph of the
\* input with the orientation tags of the flipped ids flipped at every edge
\* endpoint, for every subset F of the ids.
C7_GraphRelabelled ==
    Built =>
        \A F \in SUBSET DOMAIN unitigs :
            IsRelabelled(build(PreFlip(unitigs, F), RcDB(PreFlip(unitigs, F)), k), dbg, F)

\* a built graph with edges that some pre-flip changes
C7_Witness ==
    /\ Built
    /\ n_unitigs >= 2
    /\ \E F \in SUBSET DOMAIN unitigs :
          /\ F # {} /\ F # DOMAIN unitigs
          /\ build(PreFlip(unitigs, F), RcDB(PreFlip(unitigs, F)), k).out_edges # dbg.out_edges

\* the non-switching assignment of every pre-flipped input scores what the
\* assignment of the input scores
LibScoreInvariant ==
    pc = "done" /\ alg = "non_switching" =>
        \A F \in SUBSET DOMAIN unitigs : LibScore(PreFlip(unitigs, F), k) = score

\* the terminal-first assignment of every pre-flipped input scores what the
\* assignment of the input scores
MainScoreInvariant ==
    pc = "done" /\ alg = "terminal_first" =>
        \A F \in SUBSET DOMAIN unitigs : MainScore(PreFlip(unitigs, F), k) = score

\* C7 as stated, for the library's Assignor: the graph of a pre-flipped
\* input is the relabelled graph and the score of the assignment
\* optimize_unitig_orientation returns for it equals the score for the input.
C7_PreFlipInvariance ==
    /\ C7_GraphRelabelled
    /\ LibScoreInvariant

\* the ids to with an edge (from, to, from_o, to_o) of the doubled graph g
\* such that choices[from] = from_o and choices[to] = to_o
HasSatisfiedPredecessor(choices, g) ==
    {to \in 0..(g.n_unitigs - 1) :
        \E from \in 0..(g.n_unitigs - 1), from_o \in Orientation, to_o \in Orientation :
            /\ Count(g.out_edges[from + (IF from_o = Reverse THEN g.n_unitigs ELSE 0)],
                     to + (IF to_o = Reverse THEN g.n_unitigs ELSE 0)) >= 1
            /\ choices[from] = from_o
            /\ choices[to] = to_o}

Assignments(n) == [0..(n - 1) -> Orientation]

C10_ShortSequenceReported ==
    prog = "lib" /\ TooShort(unitigs, k) # {} =>
        /\ borders = <<>>
        /\ error.kind # "slice_index_out_of_range"
        /\ pc # "borders" =>
              error = [kind |-> "invalid_sequence_length", id |-> Min(TooShort(unitigs, k)), k |-> k]
        /\ dbg = NoDBG
        /\ orientations = <<>>

\* C11: with no sequences, build, the Assignor and evaluate run to the end:
\* no loop body runs (so nothing is indexed and no remainder by n is taken),
\* no search starts, the run neither panics nor reports an error, the
\* assignment returned is empty and the score is 0; the functions called on
\* the empty graph as a whole return the same.
C11_EmptyInput ==
    n_unitigs = 0 =>
        /\ pc \notin {"panic", "error", "bfs", "switching_bfs", "bfs_from"}
        /\ pc # "done" => ENABLED Next
        /\ i = 0 /\ root = 0 /\ queue = <<>> /\ n_components = 0
        /\ borders = <<>> /\ dbg = NewDBG(0) /\ edges = <<>>
        /\ visited = <<>> /\ orientations = <<>>
        /\ pc = "done" => score = 0
        /\ pc = "pick" /\ prog = "lib" =>
              /\ build(unitigs, unitigs_rc, k) = NewDBG(0)
              /\ pick_orientations_with_non_switching_bfs(dbg) = <<>>
              /\ pick_orientations_with_switching_bfs(dbg) = <<>>
              /\ evaluate(<<>>, dbg) = 0
        /\ pc = "pick" /\ prog = "main" =>
              /\ pick_orientations(edges) = <<>>
              /\ main_evaluate(<<>>, edges) = 0

\* optimize_unitig_orientation returned the empty assignment for the empty
\* input and it was scored
C11_Witness ==
    /\ n_unitigs = 0
    /\ alg = "non_switching"
    /\ pc = "done"
    /\ orientations = <<>>
    /\ score = 0

\* the score of the assignment as evaluate computes it in this state
ScoreNow == IF prog = "lib" THEN evaluate(orientations, dbg) ELSE main_evaluate(orientations, edges)

\* C12: evaluate writes neither the assignment nor the graph, and applied
\* again to the assignment and graph it was given it returns the score it
\* returned.
C12_ScoringPure ==
    /\ [](pc = "done" => score = ScoreNow)
    /\ [][pc = "evaluate" =>
            /\ orientations' = orientations
            /\ dbg' = dbg
            /\ edges' = edges
            /\ score' = ScoreNow']_vars

\* an assignment with a Reverse entry has been scored, and some id has a
\* predecessor
C12_Witness ==
    /\ pc = "done"
    /\ score >= 1
    /\ \E id \in DOMAIN orientations : orientations[id] = Reverse
    /\ score = ScoreNow

\* the edges of id that are not self-loops and leave in orientation o
LeavingIn(es, id, o) ==
    {j \in 1..Len(es[id]) : es[id][j].from # es[id][j].to /\ es[id][j].from_orientation = o}

\* C13: is_terminal(i) is true exactly when, self-loops set aside, the
\* outgoing edges of i do not leave both in Forward and in Reverse; an id
\* with no edge but self-loops is terminal.
C13_TerminalClassification ==
    prog = "main" /\ pc = "pick" =>
        \A id \in DOMAIN edges :
            /\ is_terminal(edges, id) =
                  ~(LeavingIn(edges, id, Forward) # {} /\ LeavingIn(edges, id, Reverse) # {})
            /\ (\A j \in 1..Len(edges[id]) : edges[id][j].from = edges[id][j].to)
                  => is_terminal(edges, id)

\* a graph with an id that has self-loops and nothing else, and an id that
\* is not terminal
C13_Witness ==
    /\ prog = "main" /\ pc = "pick"
    /\ \E id \in DOMAIN edges :
          /\ Len(edges[id]) >= 1
          /\ \A j \in 1..Len(edges[id]) : edges[id][j].from = edges[id][j].to
          /\ is_terminal(edges, id)
    /\ \E id \in DOMAIN edges : ~is_terminal(edges, id)

\* bfs_from is running and has committed the id it was started from (the id
\* was unvisited when the search started, so this search committed it)
RootCommitted == prog = "main" /\ pc = "bfs_from" /\ visited[root]

\* C14 as amended: every root of a propagation of main.rs pick_orientations,
\* in the pass over the terminal ids as in the clean-up pass, is committed to
\* Forward, whichever way its edges leave.
C14_RootForward ==
    RootCommitted => orientations[root] = Forward

\* a terminal root all of whose edges to other ids leave in Forward has been
\* committed to Forward in the first pass
C14_Witness ==
    /\ RootCommitted
    /\ phase = 1
    /\ LeavingIn(edges, root, Forward) # {}
    /\ LeavingIn(edges, root, Reverse) = {}
    /\ orientations[root] = Forward

\* C14 as stated: a terminal root is committed to Reverse when its edges to
\* other ids all leave in Forward and to Forward when they all leave in
\* Reverse; a root of the clean-up pass is committed to Forward.
C14_TerminalRootOrientation ==
    RootCommitted =>
        /\ phase = 1 /\ LeavingIn(edges, root, Forward) # {} /\ LeavingIn(edges, root, Reverse) = {}
              => orientations[root] = Reverse
        /\ phase = 1 /\ LeavingIn(edges, root, Reverse) # {} /\ LeavingIn(edges, root, Forward) = {}
              => orientations[root] = Forward
        /\ phase = 2 => orientations[root] = Forward

\* the boundary substrings of sequence id: P_i, S_i, and those of its
\* reverse complement, P_i^rc and S_i^rc
P(id) == SlicePrefix(unitigs[id], k - 1)
Sfx(id) == SliceSuffix(unitigs[id], k - 1)
P_rc(id) == SlicePrefix(unitigs_rc[id], k - 1)
S_rc(id) == SliceSuffix(unitigs_rc[id], k - 1)

\* the mark a match must carry for the edge to enter j in orientation to_o
MarkFor(to_o) == IF to_o = Forward THEN Start ELSE End

\* the key DBG::build looks up for the edges of id tagged (from_o, to_o)
KeyInCode(id, from_o, to_o) ==
    CASE from_o = Forward /\ to_o = Forward -> Sfx(id)
      [] from_o = Forward /\ to_o = Reverse -> P_rc(id)
      [] from_o = Reverse /\ to_o = Forward -> S_rc(id)
      [] from_o = Reverse /\ to_o = Reverse -> P(id)

\* the key the table of section 4.2 names for them
KeyInTable(id, from_o, to_o) ==
    CASE from_o = Forward /\ to_o = Forward -> Sfx(id)
      [] from_o = Forward /\ to_o = Reverse -> S_rc(id)
      [] from_o = Reverse /\ to_o = Forward -> P_rc(id)
      [] from_o = Reverse /\ to_o = Reverse -> P(id)

\* C15 as amended: P_i^rc is the reverse complement of S_i and S_i^rc that
\* of P_i, and DBG::build emits (i, j, Forward, Forward) for every (j, Start)
\* under S_i, (i, j, Forward, Reverse) for every (j, End) under P_i^rc,
\* (i, j, Reverse, Forward) for every (j, Start) under S_i^rc,
\* (i, j, Reverse, Reverse) for every (j, End) under P_i, and no other edge.
C15_LookupKeys ==
    Built =>
        \A a \in DOMAIN unitigs :
            /\ P_rc(a) = reverse_complement(Sfx(a))
            /\ S_rc(a) = reverse_complement(P(a))
            /\ \A b \in DOMAIN unitigs, oa \in Orientation, ob \in Orientation :
                  Count(dbg.out_edges[Node(a, oa)], Node(b, ob)) =
                      Count(Occs(borders, KeyInCode(a, oa, ob)), MapValue(b, MarkFor(ob)))

\* a built graph with a (Forward, Reverse) edge from i to another id j that
\* is in the borders map under P_i^rc and not under S_i^rc
C15_Witness ==
    /\ Built
    /\ \E a \in DOMAIN unitigs, b \in DOMAIN unitigs :
          /\ a # b
          /\ Count(dbg.out_edges[Node(a, Forward)], Node(b, Reverse)) = 1
          /\ Count(Occs(borders, P_rc(a)), MapValue(b, End)) = 1
          /\ Count(Occs(borders, S_rc(a)), MapValue(b, End)) = 0

\* C15 as stated: the (Forward, Reverse) edges are the (j, End) under
\* S_i^rc and the (Reverse, Forward) edges are the (j, Start) under P_i^rc.
C15_LookupTable ==
    Built =>
        \A a \in DOMAIN unitigs, b \in DOMAIN unitigs, oa \in Orientation, ob \in Orientation :
            Count(dbg.out_edges[Node(a, oa)], Node(b, ob)) =
                Count(Occs(borders, KeyInTable(a, oa, ob)), MapValue(b, MarkFor(ob)))

\* what bfs_from pushes when it commits id in orientation o: for each edge of
\* id that leaves in o, in the order of the list, its target with its
\* to_orientation
Successors(id, o) ==
    LET leaving == SelectSeq(edges[id], LAMBDA e : e.from_orientation = o)
    IN  [j \in 1..Len(leaving) |-> <<leaving[j].to, leaving[j].to_orientation>>]

\* C16: a step of bfs_from on an entry (id, o) for an unvisited id commits
\* id to o and enqueues, for exactly the edges of id whose from_orientation
\* is o, the pair (edge.to, edge.to_orientation); a step on an entry for a
\* visited id removes the entry and changes nothing else.
C16_PropagationStep ==
    [][prog = "main" /\ pc = "bfs_from" /\ queue # <<>> =>
          LET id == Head(queue)[1]
              o  == Head(queue)[2]
          IN  IF visited[id]
              THEN /\ queue' = Tail(queue)
                   /\ visited' = visited
                   /\ orientations' = orientations
              ELSE /\ queue' = Tail(queue) \o Successors(id, o)
                   /\ visited' = [visited EXCEPT ![id] = TRUE]
                   /\ orientations' = [orientations EXCEPT ![id] = o]]_vars

\* bfs_from has committed an id from which an edge in the committed
\* orientation leads to another id in the other orientation, enqueued so,
\* while another edge of the id leaves in the orientation not taken
C16_Witness ==
    /\ prog = "main" /\ pc = "bfs_from"
    /\ \E id \in DOMAIN edges :
          /\ visited[id]
          /\ \E j \in 1..Len(edges[id]) :
                /\ edges[id][j].from_orientation = orientations[id]
                /\ edges[id][j].to_orientation # orientations[id]
                /\ edges[id][j].to # id
                /\ \E q \in 1..Len(queue) : queue[q] = <<edges[id][j].to, edges[id][j].to_orientation>>
          /\ \E j \in 1..Len(edges[id]) : edges[id][j].from_orientation # orientations[id]

\* one of the three searches is running
InPropagation == pc \in {"bfs", "switching_bfs", "bfs_from"}

\* the run has ended: scored, or stopped by a failed build
Ended == pc \in {"done", "panic", "error"}

\* C17: on every graph built, with its cycles, self-loops and parallel
\* edges, each propagation of bfs_from, bfs and direction_switching_bfs
\* empties its queue and the run ends; within a propagation a visited id
\* stays visited, an entry for a visited id is dropped with nothing pushed
\* or written, and the id of an expanded entry is visited from then on, so
\* no id is expanded twice in one propagation.
C17_Termination ==
    /\ InPropagation ~> (queue = <<>>)
    /\ <>Ended
    /\ [][InPropagation /\ queue # <<>> =>
            /\ \A id \in DOMAIN visited : visited[id] => visited'[id]
            /\ IF visited[HeadId]
               THEN /\ queue' = Tail(queue)
                    /\ visited' = visited
                    /\ orientations' = orientations
               ELSE visited'[HeadId]]_vars

\* a search is about to drop an entry that a cycle or a parallel edge led
\* back to an id it has already expanded: a self-loop on the forward node of
\* the root of a bfs
C17_Witness ==
    /\ pc = "bfs"
    /\ bfs_dir = Forward
    /\ queue # <<>>
    /\ Head(queue) = root
    /\ visited[root]
    /\ Count(dbg.out_edges[root], root) >= 1

\* under the current orientations the (k-1)-suffix of p is the (k-1)-prefix
\* of c, and the doubled graph has the edge
Mergeable(p, c) ==
    /\ Overlap(Oriented(unitigs, unitigs_rc, p, orientations[p]),
               Oriented(unitigs, unitigs_rc, c, orientations[c]), k)
    /\ Count(dbg.out_edges[Node(p, orientations[p])], Node(c, orientations[c])) >= 1

\* C18: in pick_orientations_with_non_switching_bfs, while it runs and when
\* it has returned, an id c committed by an entry that the expansion of p
\* pushed in a forward search has the overlap p -> c under the orientations
\* of the array, and one committed so in a backward search has the overlap
\* c -> p; "visited[v] = false" clears the root's mark alone, and the first
\* step of the backward search commits the root to Forward again, changing
\* no orientation, and pushes the out-edges of the root's twin.
C18_Mergeable ==
    /\ [](alg = "non_switching" =>
            \A c \in DOMAIN tree :
                /\ tree[c].parent >= 0 /\ tree[c].dir = Forward  => Mergeable(tree[c].parent, c)
                /\ tree[c].parent >= 0 /\ tree[c].dir = Backward => Mergeable(c, tree[c].parent))
    /\ [][pc = "bfs" /\ bfs_dir = Forward /\ queue = <<>> =>
            /\ visited' = [visited EXCEPT ![root] = FALSE]
            /\ orientations[root] = Forward
            /\ orientations' = orientations]_vars
    /\ [][pc = "bfs" /\ bfs_dir = Backward /\ queue # <<>> /\ pushed_by = <<-1>> =>
            /\ ~visited[root]
            /\ visited' = [visited EXCEPT ![root] = TRUE]
            /\ orientations' = orientations
            /\ orientations'[root] = Forward
            /\ queue' = dbg.out_edges[twin(dbg, root)]]_vars

\* the non-switching search has returned an array in which some id was
\* committed from its parent in a forward search, another in a backward
\* search, and some id is Reverse
C18_Witness ==
    /\ alg = "non_switching"
    /\ pc = "evaluate"
    /\ \E c \in DOMAIN tree : tree[c].parent >= 0 /\ tree[c].parent # c /\ tree[c].dir = Forward
    /\ \E c \in DOMAIN tree : tree[c].parent >= 0 /\ tree[c].parent # c /\ tree[c].dir = Backward
    /\ \E c \in DOMAIN orientations : orientations[c] = Reverse

\* the edge-tagged graph has an edge from p to c that the current
\* orientations satisfy at both ends
SatisfiedEdge(p, c) ==
    \E j \in 1..Len(edges[p]) :
        /\ edges[p][j].to = c
        /\ edges[p][j].from_orientation = orientations[p]
        /\ edges[p][j].to_orientation = orientations[c]

\* the ids a propagation was started from
Roots == {c \in DOMAIN tree : tree[c].parent = -1}

\* C19: in main.rs pick_orientations, while it runs and in the assignment
\* it returns, every id committed by an entry pushed along an edge has an
\* incoming edge, the one from the id that pushed the entry, satisfied by
\* the assignment; n_components counts the roots; so n - evaluate is at most
\* n_components.
C19_DummyBound ==
    alg = "terminal_first" =>
        /\ \A c \in DOMAIN tree : tree[c].parent >= 0 => SatisfiedEdge(tree[c].parent, c)
        /\ Returned =>
              /\ \A c \in DOMAIN tree : tree[c].parent >= -1
              /\ n_components = Cardinality(Roots)
        /\ pc = "done" =>
              /\ n_unitigs - score <= n_components
              /\ \A c \in DOMAIN tree :
                    tree[c].parent >= 0 => \E p \in DOMAIN edges : SatisfiedEdge(p, c)

\* main.rs has scored an assignment with two roots, an id committed along
\* an edge in Reverse, and an id without predecessor
C19_Witness ==
    /\ alg = "terminal_first"
    /\ pc = "done"
    /\ n_components >= 2
    /\ \E c \in DOMAIN tree : tree[c].parent >= 0 /\ orientations[c] = Reverse
    /\ n_unitigs - score >= 1

============================================================================
